---- MODULE Spec2Model ----
(***************************************************************************)
(* Model of panel_air_quality_dashboard.py: the classification functions   *)
(* calc_aqi, get_aqi_status and get_pollutant_status, the queries on the   *)
(* readings table, and the panes and watchers of the dashboard.            *)
(*                                                                         *)
(* Concentrations are fixed-point numbers counted in tenths of the         *)
(* pollutant's unit (35.4 is written 354), the resolution of every         *)
(* breakpoint literal of the source.  A quotient a + n/d truncated by      *)
(* Python's int() is computed exactly as int_(a*d + n, d).  On the tenths  *)
(* grid from 0 upwards the double-precision evaluation of the source       *)
(* truncates to the same integer as the exact quotient.                    *)
(***************************************************************************)
EXTENDS Integers, Sequences, FiniteSets, TLC

VARIABLES
    aqi_calls,        \* the two most recent calls of calc_aqi: [pm25, aqi]
    status_calls,     \* the most recent call of get_aqi_status: [aqi, ret]
    pollutant_calls,  \* the most recent call of get_pollutant_status
    store,            \* the rows of table defra_uk_air_quality, in table order
    phase,            \* "offline" until the module is loaded, then "serving"
    latest_data,      \* module variable latest_data
    cities,           \* module variable cities
    city_selector,    \* value of the widget city_selector
    time_range,       \* value of the widget time_range
    pollutant_selector, \* value of the widget pollutant_selector
    selected_pollutant, \* module variable selected_pollutant
    current_view,     \* module variable current_view
    map_pane,         \* object of the pane map_pane
    aqi_card,         \* object of the pane aqi_card
    pollutant_cards,  \* object of the pane pollutant_cards
    aqi_graph,        \* object of the pane aqi_graph
    graph_header,     \* object of the pane graph_header
    city_cards,       \* object of the pane city_cards
    polluted_ranking, \* object of the pane polluted_ranking
    watchers,         \* the watchers of the current city change still to run
    trend_chart,      \* the most recent call of create_trend_chart
    view_calls        \* the most recent call of a function that builds a view

engine_vars == <<aqi_calls, status_calls, pollutant_calls>>

widget_vars == <<city_selector, time_range, pollutant_selector>>

pane_vars == <<map_pane, aqi_card, pollutant_cards, aqi_graph, graph_header>>

static_vars ==
    <<latest_data, cities, selected_pollutant, current_view, city_cards,
      polluted_ranking>>

dash_vars ==
    <<store, phase, widget_vars, pane_vars, static_vars, watchers, trend_chart,
      view_calls>>

vars == <<engine_vars, dash_vars>>

-----------------------------------------------------------------------------
(* Bounds of the input sets.                                               *)

\* Largest PM2.5 concentration drawn, in tenths (600.0).
MaxPm25 == 6000
\* Most negative PM2.5 concentration drawn, in tenths, as a magnitude (10.0).
MaxNeg == 100
\* Number of evenly spaced sample points drawn inside every interval.
Samples == 16
\* Every tenth within this distance of a breakpoint is drawn.
Window == 2

-----------------------------------------------------------------------------
(* Python's int(): truncation toward zero of the quotient num/den, den > 0 *)
int_(num, den) ==
    IF num >= 0 THEN num \div den ELSE -((-num) \div den)

\* calc_aqi with the final clamp lost: the last segment is extrapolated.
calc_aqi_noclamp(pm25) ==
    IF pm25 <= 120 THEN int_(pm25 * 50, 120)
    ELSE IF pm25 <= 354 THEN int_(50 * (354 - 120) + (pm25 - 120) * 50, 354 - 120)
    ELSE IF pm25 <= 554 THEN int_(100 * (554 - 354) + (pm25 - 354) * 50, 554 - 354)
    ELSE IF pm25 <= 1504 THEN int_(150 * (1504 - 554) + (pm25 - 554) * 100, 1504 - 554)
    ELSE IF pm25 <= 2504 THEN int_(200 * (2504 - 1504) + (pm25 - 1504) * 100, 2504 - 1504)
    ELSE IF pm25 <= 3504 THEN int_(300 * (3504 - 2504) + (pm25 - 2504) * 100, 3504 - 2504)
    ELSE int_(400 * (5004 - 3504) + (pm25 - 3504) * 100, 5004 - 3504)

\* calc_aqi with the second segment scaled by 100 instead of 50.
calc_aqi_span100(pm25) ==
    IF pm25 <= 120 THEN int_(pm25 * 50, 120)
    ELSE IF pm25 <= 354 THEN int_(50 * (354 - 120) + (pm25 - 120) * 100, 354 - 120)
    ELSE IF pm25 <= 554 THEN int_(100 * (554 - 354) + (pm25 - 354) * 50, 554 - 354)
    ELSE IF pm25 <= 1504 THEN int_(150 * (1504 - 554) + (pm25 - 554) * 100, 1504 - 554)
    ELSE IF pm25 <= 2504 THEN int_(200 * (2504 - 1504) + (pm25 - 1504) * 100, 2504 - 1504)
    ELSE IF pm25 <= 3504 THEN int_(300 * (3504 - 2504) + (pm25 - 2504) * 100, 3504 - 2504)
    ELSE IF pm25 <= 5004 THEN int_(400 * (5004 - 3504) + (pm25 - 3504) * 100, 5004 - 3504)
    ELSE 500

(* calc_aqi(pm25), pm25 in tenths of a microgram per cubic metre.  The      *)
(* fourth branch multiplies by 100, as the source does.                     *)
calc_aqi(pm25) ==
    IF pm25 <= 120 THEN int_(pm25 * 50, 120)
    ELSE IF pm25 <= 354 THEN int_(50 * (354 - 120) + (pm25 - 120) * 50, 354 - 120)
    ELSE IF pm25 <= 554 THEN int_(100 * (554 - 354) + (pm25 - 354) * 50, 554 - 354)
    ELSE IF pm25 <= 1504 THEN int_(150 * (1504 - 554) + (pm25 - 554) * 100, 1504 - 554)
    ELSE IF pm25 <= 2504 THEN int_(200 * (2504 - 1504) + (pm25 - 1504) * 100, 2504 - 1504)
    ELSE IF pm25 <= 3504 THEN int_(300 * (3504 - 2504) + (pm25 - 2504) * 100, 3504 - 2504)
    ELSE IF pm25 <= 5004 THEN int_(400 * (5004 - 3504) + (pm25 - 3504) * 100, 5004 - 3504)
    ELSE 500

-----------------------------------------------------------------------------
(* The PM2.5 concentrations the calls are drawn from: every tenth within    *)
(* Window of a breakpoint, and Samples evenly spaced points inside every    *)
(* interval between -MaxNeg and MaxPm25.                                    *)
Pm25Edges == <<0 - MaxNeg, 0, 120, 354, 554, 1504, 2504, 3504, 5004, MaxPm25>>

Pm25Inputs ==
    {Pm25Edges[i] + d : i \in 1..Len(Pm25Edges), d \in (0 - Window)..Window}
    \cup {Pm25Edges[i] + ((Pm25Edges[i + 1] - Pm25Edges[i]) * k) \div Samples :
            i \in 1..(Len(Pm25Edges) - 1), k \in 0..Samples}

\* The last two entries of a call log.
LastTwo(log) == IF Len(log) > 2 THEN Tail(log) ELSE log

-----------------------------------------------------------------------------
(* get_aqi_status(aqi): (label, emoji, colour, background colour).  The     *)
(* emoji are written as tokens; the third and the fourth band carry the     *)
(* same one.                                                                *)

\* get_aqi_status with strict comparisons.
get_aqi_status_strict(aqi) ==
    IF aqi < 50 THEN <<"Good", "smiling", "#00e400", "#e8f5e8">>
    ELSE IF aqi < 100 THEN <<"Moderate", "neutral", "#ff8c00", "#fff3e0">>
    ELSE IF aqi < 150 THEN <<"Unhealthy for Sensitive Groups", "mask", "#ff7e00", "#fff3e0">>
    ELSE IF aqi < 200 THEN <<"Unhealthy", "mask", "#ff0000", "#ffebee">>
    ELSE IF aqi < 300 THEN <<"Very Unhealthy", "nauseated", "#8f3f97", "#f3e5f5">>
    ELSE <<"Hazardous", "skull", "#7e0023", "#fce4ec">>

\* get_aqi_status with the third and fifth labels taken from the pollutant scale.
get_aqi_status_pollutant_labels(aqi) ==
    IF aqi <= 50 THEN <<"Good", "smiling", "#00e400", "#e8f5e8">>
    ELSE IF aqi <= 100 THEN <<"Moderate", "neutral", "#ff8c00", "#fff3e0">>
    ELSE IF aqi <= 150 THEN <<"Poor", "mask", "#ff7e00", "#fff3e0">>
    ELSE IF aqi <= 200 THEN <<"Unhealthy", "mask", "#ff0000", "#ffebee">>
    ELSE IF aqi <= 300 THEN <<"Severe", "nauseated", "#8f3f97", "#f3e5f5">>
    ELSE <<"Hazardous", "skull", "#7e0023", "#fce4ec">>

get_aqi_status(aqi) ==
    IF aqi <= 50 THEN <<"Good", "smiling", "#00e400", "#e8f5e8">>
    ELSE IF aqi <= 100 THEN <<"Moderate", "neutral", "#ff8c00", "#fff3e0">>
    ELSE IF aqi <= 150 THEN <<"Unhealthy for Sensitive Groups", "mask", "#ff7e00", "#fff3e0">>
    ELSE IF aqi <= 200 THEN <<"Unhealthy", "mask", "#ff0000", "#ffebee">>
    ELSE IF aqi <= 300 THEN <<"Very Unhealthy", "nauseated", "#8f3f97", "#f3e5f5">>
    ELSE <<"Hazardous", "skull", "#7e0023", "#fce4ec">>

\* An AQI is drawn from the range of calc_aqi widened by this margin.
AqiMargin == 20

AqiInputs == (0 - AqiMargin)..(500 + AqiMargin)

-----------------------------------------------------------------------------
(* Values handed to get_pollutant_status: a number (in tenths), the float   *)
(* NaN that pandas gives for a missing cell, or None.                       *)
Num(x) == [tag |-> "num", v |-> x]
NaN == [tag |-> "nan", v |-> 0]
None == [tag |-> "none", v |-> 0]

\* The exception Python raises when None is compared with a number.
TypeError == <<"TypeError">>

\* value < bound, the comparison with its equality lost.
lt(value, bound) == value.tag = "num" /\ value.v < bound

\* value <= bound: false when value is NaN.
le(value, bound) == value.tag = "num" /\ value.v <= bound

status_pm25(value) ==
    IF value.tag = "none" THEN TypeError
    ELSE IF le(value, 120) THEN <<"Good", "#00e400", "#e8f5e8">>
    ELSE IF le(value, 354) THEN <<"Moderate", "#ff8c00", "#fff3e0">>
    ELSE IF le(value, 554) THEN <<"Poor", "#ff7e00", "#fff0e6">>
    ELSE IF le(value, 1504) THEN <<"Unhealthy", "#ff0000", "#ffe6e6">>
    ELSE IF le(value, 2504) THEN <<"Severe", "#8f3f97", "#f3e5f5">>
    ELSE <<"Hazardous", "#7e0023", "#fce4ec">>

status_pm10(value) ==
    IF value.tag = "none" THEN TypeError
    ELSE IF le(value, 540) THEN <<"Good", "#00e400", "#e8f5e8">>
    ELSE IF le(value, 1540) THEN <<"Moderate", "#ff8c00", "#fff3e0">>
    ELSE IF le(value, 2540) THEN <<"Poor", "#ff7e00", "#fff0e6">>
    ELSE IF le(value, 3540) THEN <<"Unhealthy", "#ff0000", "#ffe6e6">>
    ELSE IF le(value, 4240) THEN <<"Severe", "#8f3f97", "#f3e5f5">>
    ELSE <<"Hazardous", "#7e0023", "#fce4ec">>

status_no2(value) ==
    IF value.tag = "none" THEN TypeError
    ELSE IF le(value, 530) THEN <<"Good", "#00e400", "#e8f5e8">>
    ELSE IF le(value, 1000) THEN <<"Moderate", "#ff8c00", "#fff3e0">>
    ELSE IF le(value, 3600) THEN <<"Poor", "#ff7e00", "#fff0e6">>
    ELSE IF le(value, 6490) THEN <<"Unhealthy", "#ff0000", "#ffe6e6">>
    ELSE IF le(value, 12490) THEN <<"Severe", "#8f3f97", "#f3e5f5">>
    ELSE <<"Hazardous", "#7e0023", "#fce4ec">>

\* status_o3 with the second and third bounds exchanged.
status_o3_swapped(value) ==
    IF value.tag = "none" THEN TypeError
    ELSE IF le(value, 540) THEN <<"Good", "#00e400", "#e8f5e8">>
    ELSE IF le(value, 850) THEN <<"Moderate", "#ff8c00", "#fff3e0">>
    ELSE IF le(value, 700) THEN <<"Poor", "#ff7e00", "#fff0e6">>
    ELSE IF le(value, 1050) THEN <<"Unhealthy", "#ff0000", "#ffe6e6">>
    ELSE IF le(value, 2000) THEN <<"Severe", "#8f3f97", "#f3e5f5">>
    ELSE <<"Hazardous", "#7e0023", "#fce4ec">>

status_o3(value) ==
    IF value.tag = "none" THEN TypeError
    ELSE IF le(value, 540) THEN <<"Good", "#00e400", "#e8f5e8">>
    ELSE IF le(value, 700) THEN <<"Moderate", "#ff8c00", "#fff3e0">>
    ELSE IF le(value, 850) THEN <<"Poor", "#ff7e00", "#fff0e6">>
    ELSE IF le(value, 1050) THEN <<"Unhealthy", "#ff0000", "#ffe6e6">>
    ELSE IF le(value, 2000) THEN <<"Severe", "#8f3f97", "#f3e5f5">>
    ELSE <<"Hazardous", "#7e0023", "#fce4ec">>

status_co(value) ==
    IF value.tag = "none" THEN TypeError
    ELSE IF le(value, 44) THEN <<"Good", "#00e400", "#e8f5e8">>
    ELSE IF le(value, 94) THEN <<"Moderate", "#ff8c00", "#fff3e0">>
    ELSE IF le(value, 124) THEN <<"Poor", "#ff7e00", "#fff0e6">>
    ELSE IF le(value, 154) THEN <<"Unhealthy", "#ff0000", "#ffe6e6">>
    ELSE IF le(value, 304) THEN <<"Severe", "#8f3f97", "#f3e5f5">>
    ELSE <<"Hazardous", "#7e0023", "#fce4ec">>

\* status_so2 with the yellow that 'Moderate' had before it was changed to orange.
status_so2_yellow(value) ==
    IF value.tag = "none" THEN TypeError
    ELSE IF le(value, 350) THEN <<"Good", "#00e400", "#e8f5e8">>
    ELSE IF le(value, 750) THEN <<"Moderate", "#ffff00", "#fff3e0">>
    ELSE IF le(value, 1850) THEN <<"Poor", "#ff7e00", "#fff0e6">>
    ELSE IF le(value, 3040) THEN <<"Unhealthy", "#ff0000", "#ffe6e6">>
    ELSE IF le(value, 6040) THEN <<"Severe", "#8f3f97", "#f3e5f5">>
    ELSE <<"Hazardous", "#7e0023", "#fce4ec">>

status_so2(value) ==
    IF value.tag = "none" THEN TypeError
    ELSE IF le(value, 350) THEN <<"Good", "#00e400", "#e8f5e8">>
    ELSE IF le(value, 750) THEN <<"Moderate", "#ff8c00", "#fff3e0">>
    ELSE IF le(value, 1850) THEN <<"Poor", "#ff7e00", "#fff0e6">>
    ELSE IF le(value, 3040) THEN <<"Unhealthy", "#ff0000", "#ffe6e6">>
    ELSE IF le(value, 6040) THEN <<"Severe", "#8f3f97", "#f3e5f5">>
    ELSE <<"Hazardous", "#7e0023", "#fce4ec">>

\* get_pollutant_status with 'AQI' classified on the PM2.5 table.
get_pollutant_status_aqi_as_pm25(pollutant, value) ==
    IF pollutant = "PM2.5" \/ pollutant = "AQI" THEN status_pm25(value)
    ELSE IF pollutant = "PM10" THEN status_pm10(value)
    ELSE IF pollutant = "NO2" THEN status_no2(value)
    ELSE IF pollutant = "O3" THEN status_o3(value)
    ELSE IF pollutant = "CO" THEN status_co(value)
    ELSE IF pollutant = "SO2" THEN status_so2(value)
    ELSE <<"Unknown", "#666666", "#f5f5f5">>

(* get_pollutant_status(pollutant, value): (label, colour, background      *)
(* colour), or the exception raised.                                        *)
get_pollutant_status(pollutant, value) ==
    IF pollutant = "PM2.5" THEN status_pm25(value)
    ELSE IF pollutant = "PM10" THEN status_pm10(value)
    ELSE IF pollutant = "NO2" THEN status_no2(value)
    ELSE IF pollutant = "O3" THEN status_o3(value)
    ELSE IF pollutant = "CO" THEN status_co(value)
    ELSE IF pollutant = "SO2" THEN status_so2(value)
    ELSE <<"Unknown", "#666666", "#f5f5f5">>

\* The six pollutant kinds the classifier recognises.
Kinds == {"PM2.5", "PM10", "NO2", "O3", "CO", "SO2"}

(* Other names a caller can pass: the first option of pollutant_selector,   *)
(* the column name of a reading row, and a pollutant without a table.       *)
OtherKinds == {"AQI", "pm25", "NH3"}

\* Largest pollutant value drawn, in tenths (1300.0).
MaxValue == 13000

\* Every upper bound compared against by get_pollutant_status, in tenths.
ValueEdges ==
    {120, 354, 554, 1504, 2504, 540, 1540, 2540, 3540, 4240,
     530, 1000, 3600, 6490, 12490, 700, 850, 1050, 2000,
     44, 94, 124, 154, 304, 350, 750, 1850, 3040, 6040}

ValueInputs ==
    {Num(e + d) : e \in ValueEdges \cup {0}, d \in (0 - Window)..Window}
    \cup {Num((MaxValue * k) \div Samples) : k \in 0..Samples}
    \cup {Num(5000), NaN, None}

\* The upper bounds compared against in the branch of each kind, in tenths.
KindEdges(k) ==
    CASE k = "PM2.5" -> {120, 354, 554, 1504, 2504}
      [] k = "PM10" -> {540, 1540, 2540, 3540, 4240}
      [] k = "NO2" -> {530, 1000, 3600, 6490, 12490}
      [] k = "O3" -> {540, 700, 850, 1050, 2000}
      [] k = "CO" -> {44, 94, 124, 154, 304}
      [] k = "SO2" -> {350, 750, 1850, 3040, 6040}

\* The values of kind k drawn when two calls are compared.
KindInputs(k) ==
    {Num(e + d) : e \in KindEdges(k) \cup {0}, d \in (0 - Window)..Window}
    \cup {Num(MaxValue)}

-----------------------------------------------------------------------------
(* The readings table.  A row has the columns site, datetime and the       *)
(* pollutants, in tenths of their units: datetime counts                    *)
(* hours, and the order of the stored datetime texts is taken to be the     *)
(* order of the times they denote.  A query without ORDER BY returns its    *)
(* rows in table order.                                                     *)

\* The site names drawn, in alphabetical order.
Sites == <<"Aberdeen", "Belfast">>

\* Largest number of sites of the table the ranking is built from.
MaxSites == 11

\* Site names in alphabetical order, the first two being Sites.
SiteNames ==
    <<"Aberdeen", "Belfast", "Birmingham", "Bristol", "Cardiff", "Derby", "Edinburgh",
      "Glasgow", "Leeds", "Liverpool", "London", "Manchester">>

\* Python's None as a city argument, written as a name no site bears.
NoneCity == "None"

\* Largest number of rows of the table.
MaxRows == 3

(* The limit=1000 that create_trend_chart passes to                        *)
(* load_historical_data_sample, scaled down to the size of the tables drawn. *)
SampleLimit == 2

(* The limit=1000 that create_historical_aqi_graph passes to                *)
(* load_historical_data_sample, scaled down to the size of the tables       *)
(* drawn, above the 20 rows of tail(20).                                    *)
GraphSampleLimit == 22

\* Largest number of rows of the table the historical graph is built from.
MaxGraphRows == 24

\* Python's truth value of a city argument.
truthy(city) == city # NoneCity /\ city # ""

\* latest_data['site'].values
site_values(rows) == {rows[i].site : i \in DOMAIN rows}

\* rows[rows['site'] == city]
of_site(rows, city) == SelectSeq(rows, LAMBDA r : r.site = city)

\* rows[rows['site'] == city].iloc[0]
first_row(rows, city) == of_site(rows, city)[1]

(* load_latest_data(): the rows whose (site, datetime) is a                 *)
(* (site, MAX(datetime)) of the table.                                      *)
load_latest_data(st) ==
    SelectSeq(st, LAMBDA r :
        \A i \in DOMAIN st : st[i].site = r.site => st[i].datetime <= r.datetime)

\* get_cities_list(): the distinct sites, sorted.
get_cities_list(st) == SelectSeq(SiteNames, LAMBDA s : s \in site_values(st))

\* The smaller of two numbers.
min_(a, b) == IF a < b THEN a ELSE b

\* load_historical_data_sample with the LIMIT clause lost.
load_historical_data_sample_nolimit(st, site, limit) ==
    LET idx == {i \in DOMAIN st : ~truthy(site) \/ st[i].site = site}
        n == Cardinality(idx)
    IN  {[k \in 1..n |-> st[q[k]]] :
            q \in {f \in [1..n -> idx] :
                    \A a, b \in 1..n :
                        a < b => /\ f[a] # f[b]
                                 /\ st[f[a]].datetime <= st[f[b]].datetime}}

\* The rows kept left in the order of the query, latest first.
RECURSIVE sort_values_missing(_, _)
sort_values_missing(st, kept) ==
    IF kept = {} THEN {<< >>}
    ELSE LET first == {i \in kept : \A j \in kept : st[i].datetime >= st[j].datetime}
         IN  UNION {{<<st[i]>> \o rest : rest \in sort_values_missing(st, kept \ {i})} :
                        i \in first}

(* sort_values("datetime") of the rows kept: every order of the rows with   *)
(* datetime ascending; rows of one datetime stand in any order.             *)
RECURSIVE sort_values(_, _)
sort_values(st, kept) ==
    IF kept = {} THEN {<< >>}
    ELSE LET first == {i \in kept : \A j \in kept : st[i].datetime <= st[j].datetime}
         IN  UNION {{<<st[i]>> \o rest : rest \in sort_values(st, kept \ {i})} : i \in first}

(* load_historical_data_sample(site, limit): the possible results.  The     *)
(* query keeps the limit rows of the latest datetimes (of the site when one *)
(* is given) and sort_values orders them by datetime ascending; which of    *)
(* several rows of one datetime are kept, and in which order, is open.      *)
load_historical_data_sample(st, site, limit) ==
    LET idx == {i \in DOMAIN st : ~truthy(site) \/ st[i].site = site}
        n == min_(Cardinality(idx), limit)
        later(i) == {j \in idx : st[j].datetime > st[i].datetime}
        level(i) == {j \in idx : st[j].datetime = st[i].datetime}
        last == {i \in idx : /\ Cardinality(later(i)) < n
                             /\ Cardinality(later(i)) + Cardinality(level(i)) >= n}
        sure == {i \in idx : \E j \in last : st[i].datetime > st[j].datetime}
    IN  UNION {sort_values(st, sure \cup some) :
                some \in {c \in SUBSET last : Cardinality(c) = n - Cardinality(sure)}}

\* The hours of a time range; every name but the first two is 30 days.
duration(range) ==
    IF range = "Last 24 Hours" THEN 24
    ELSE IF range = "Last 7 Days" THEN 7 * 24
    ELSE 30 * 24

\* The calc_aqi of every row.
aqi_column(rows) == [k \in DOMAIN rows |-> calc_aqi(rows[k].pm25)]

\* go.Figure() without a trace.
EmptyFigure == [fn |-> "Figure", rows |-> << >>, aqi |-> << >>]

(* create_trend_chart(city, time_range) evaluated at the time now: the      *)
(* possible figures, each with the rows it plots.                           *)
create_trend_chart(st, city, range, now) ==
    {LET city_data == of_site(df, city)
         recent == SelectSeq(city_data, LAMBDA r : r.datetime >= now - duration(range))
     IN  IF city_data = << >> \/ recent = << >> THEN EmptyFigure
         ELSE [fn |-> "trend", rows |-> recent, aqi |-> aqi_column(recent)] :
        df \in load_historical_data_sample(st, city, SampleLimit)}

\* The first n entries of a sequence.
head(rows, n) == SubSeq(rows, 1, min_(n, Len(rows)))

\* The last n entries of a sequence.
tail(rows, n) == SubSeq(rows, Len(rows) - min_(n, Len(rows)) + 1, Len(rows))

\* The latest datetime of a non-empty sequence of rows.
max_datetime(rows) ==
    CHOOSE t \in {rows[i].datetime : i \in DOMAIN rows} :
        \A i \in DOMAIN rows : rows[i].datetime <= t

\* create_historical_aqi_graph(city): the possible results.
create_historical_aqi_graph(st, city) ==
    IF ~truthy(city) THEN {[fn |-> "None"]}
    ELSE {LET city_data == of_site(df, city)
              recent == SelectSeq(city_data,
                            LAMBDA r : r.datetime >= max_datetime(city_data) - 24)
              shown == IF Len(recent) < 5 THEN tail(city_data, 20) ELSE recent
          IN  IF city_data = << >>
              THEN [fn |-> "placeholder", city |-> city]
              ELSE [fn |-> "bars", rows |-> shown, aqi |-> aqi_column(shown)] :
            df \in load_historical_data_sample(st, city, GraphSampleLimit)}

\* max(values) of a non-empty list.
max(values) ==
    CHOOSE v \in {values[i] : i \in DOMAIN values} : \A i \in DOMAIN values : values[i] <= v

\* min(values) of a non-empty list.
min(values) ==
    CHOOSE v \in {values[i] : i \in DOMAIN values} : \A i \in DOMAIN values : v <= values[i]

\* The quotient num / den, kept exact.
ratio(num, den) == [num |-> num, den |-> den]

(* generate_real_historical_graph(graph_data, pollutant, data), for the     *)
(* values of graph_data: the text for an empty list, else the height of     *)
(* every bar in percent, with the largest and the smallest value.           *)
generate_real_historical_graph(values) ==
    IF values = << >> THEN [fn |-> "text", text |-> "No historical data available"]
    ELSE LET max_val == max(values)
             min_val == min(values)
             value_range == IF max_val # min_val THEN max_val - min_val ELSE max_val
         IN  [fn |-> "bars",
              heights |-> [i \in DOMAIN values |->
                              IF value_range > 0
                              THEN ratio((values[i] - min_val) * 100, value_range)
                              ELSE ratio(50, 1)],
              max_value |-> max_val, min_value |-> min_val]

(* str.lower() of the pollutant names drawn: the letters in lower case, the *)
(* digits and the point as they are.                                        *)
lower(pollutant) ==
    CASE pollutant = "PM2.5" -> "pm2.5"
      [] pollutant = "PM10" -> "pm10"
      [] pollutant = "NO2" -> "no2"
      [] pollutant = "O3" -> "o3"
      [] pollutant = "CO" -> "co"
      [] pollutant = "SO2" -> "so2"
      [] pollutant = "AQI" -> "aqi"

(* get_pollutant_info(pollutant): the unit of the entry, micrograms per     *)
(* cubic metre written in ASCII; the empty dictionary for another name.     *)
get_pollutant_info(pollutant) ==
    CASE pollutant \in {"PM2.5", "PM10"} -> [unit |-> "ug/m3"]
      [] pollutant \in {"NO2", "O3", "CO", "SO2"} -> [unit |-> "ppb"]
      [] OTHER -> [k \in {} |-> ""]

(* create_detailed_pollutant_view(city, pollutant) up to the values it      *)
(* shows: the possible outcomes, an exception being one of them.            *)
create_detailed_pollutant_view(st, city, pollutant) ==
    {LET city_data == of_site(df, city)
         latest == city_data[Len(city_data)]
         info == get_pollutant_info(pollutant)
     IN  IF city_data = << >> THEN [fn |-> "IndexError"]
         ELSE IF lower(pollutant) \notin DOMAIN latest
         THEN [fn |-> "KeyError", key |-> lower(pollutant)]
         ELSE IF "unit" \notin DOMAIN info THEN [fn |-> "KeyError", key |-> "unit"]
         ELSE LET pollutant_value == latest[lower(pollutant)]
                  status == get_pollutant_status(pollutant, Num(pollutant_value))
              IN  [fn |-> "detail", value |-> pollutant_value, unit |-> info.unit,
                   status |-> status[1], color |-> status[2]] :
        df \in load_historical_data_sample(st, city, 1500)}

\* The text both cards return for a city without a row in latest_data.
NotAvailable == [fn |-> "text", text |-> "City data not available"]

(* create_map(city): the map centres on the first row of the city, or on    *)
(* the United Kingdom; zoom in tenths.                                      *)
create_map(ld, city) ==
    IF truthy(city) /\ city \in site_values(ld)
    THEN [fn |-> "map", center |-> city, zoom |-> 110, highlight |-> TRUE, data |-> ld]
    ELSE [fn |-> "map", center |-> "UK", zoom |-> 55, highlight |-> FALSE, data |-> ld]

\* create_aqi_card falling back to the first row for a city without one.
create_aqi_card_fallback(ld, city) ==
    IF ld = << >> THEN NotAvailable
    ELSE LET city_data == IF city \in site_values(ld) THEN first_row(ld, city) ELSE ld[1]
             aqi == calc_aqi(city_data.pm25)
         IN  [fn |-> "aqi_card", aqi |-> aqi, status |-> get_aqi_status(aqi),
              last_updated |-> city_data.datetime]

\* create_aqi_card(city)
create_aqi_card(ld, city) ==
    IF city \notin site_values(ld) THEN NotAvailable
    ELSE LET city_data == first_row(ld, city)
             aqi == calc_aqi(city_data.pm25)
         IN  [fn |-> "aqi_card", aqi |-> aqi, status |-> get_aqi_status(aqi),
              last_updated |-> city_data.datetime]

(* format(v, '.1f'): on the tenths grid the digits of v itself.             *)
fmt_1f(v) == v

(* format(v, '.0f') of a value from 0 upwards: the nearest whole number, a  *)
(* half going to the even neighbour; the result again in tenths.            *)
fmt_0f(v) ==
    LET q == v \div 10
        r == v % 10
    IN  IF r < 5 THEN q * 10
        ELSE IF r > 5 THEN (q + 1) * 10
        ELSE IF q % 2 = 0 THEN q * 10 ELSE (q + 1) * 10

\* Series.get(key, default): the cell of a row, or the default without the column.
get(city_data, key, default) ==
    IF key \in DOMAIN city_data THEN city_data[key] ELSE default

\* The CO value with 0 as the default.
co_value_zero(city_data) == get(city_data, "co", 0)

\* co_value = city_data.get('co', 95)
co_value(city_data) == get(city_data, "co", 950)

\* so2_value = city_data.get('so2', 0)
so2_value(city_data) == get(city_data, "so2", 0)

\* The entry of one pollutant in pollutantData: value shown, status, colour, unit.
card(shown, status, color, unit) ==
    [value |-> shown, status |-> status, color |-> color, unit |-> unit]

(* create_pollutant_cards(city): the six entries of pollutantData; the      *)
(* cards show the same values, colours and units.                           *)
create_pollutant_cards(ld, city) ==
    IF city \notin site_values(ld) THEN NotAvailable
    ELSE LET city_data == first_row(ld, city)
             pm25 == get_pollutant_status("PM2.5", Num(city_data.pm25))
             pm10 == get_pollutant_status("PM10", Num(city_data.pm10))
             no2 == get_pollutant_status("NO2", Num(city_data.no2))
             o3 == get_pollutant_status("O3", Num(city_data.o3))
         IN  [fn |-> "pollutant_cards",
              co_value |-> co_value(city_data),
              so2_value |-> so2_value(city_data),
              cards |->
                [k \in Kinds |->
                    CASE k = "PM2.5" -> card(fmt_1f(city_data.pm25), pm25[1], pm25[2], "ug/m3")
                      [] k = "PM10" -> card(fmt_1f(city_data.pm10), pm10[1], pm10[2], "ug/m3")
                      [] k = "NO2" -> card(fmt_0f(city_data.no2), no2[1], no2[2], "ppb")
                      [] k = "O3" -> card(fmt_0f(city_data.o3), o3[1], o3[2], "ppb")
                      [] k = "CO" -> card(fmt_0f(co_value(city_data)), "Good", "#00e400", "ppb")
                      [] k = "SO2" -> card(fmt_0f(so2_value(city_data)), "Good", "#00e400", "ppb")]]

\* create_graph_header(city): the header names the city.
create_graph_header(city) == [fn |-> "graph_header", city |-> city]

\* df['site'].unique(): the sites in the order of their first row.
unique_sites(rows) ==
    LET firsts == SelectSeq([i \in DOMAIN rows |-> i],
                    LAMBDA i : \A j \in 1..(i - 1) : rows[j].site # rows[i].site)
    IN  [k \in DOMAIN firsts |-> rows[firsts[k]].site]

\* create_city_cards(): one card for every site of a fresh load_latest_data().
create_city_cards(st) ==
    LET df == load_latest_data(st)
        names == unique_sites(df)
    IN  [k \in DOMAIN names |->
            LET aqi == calc_aqi(first_row(df, names[k]).pm25)
            IN  [city |-> names[k], aqi |-> aqi, badge_color |-> get_aqi_status(aqi)[3]]]

\* The entry of create_polluted_cities_ranking for one row.
ranking_entry(row) ==
    LET aqi == calc_aqi(row.pm25)
        m == int_(aqi, 50)
    IN  [city |-> row.site, aqi |-> aqi, status |-> get_aqi_status(aqi)[1],
         color |-> get_aqi_status(aqi)[3], bg_color |-> get_aqi_status(aqi)[4],
         standard_multiplier |-> IF m > 1 THEN m ELSE 1]

\* The entries sorted ascending and then reversed: equal entries change places.
RECURSIVE sort_by_aqi_reversed(_)
sort_by_aqi_reversed(entries) ==
    IF entries = << >> THEN << >>
    ELSE LET n == Len(entries)
             front == sort_by_aqi_reversed(SubSeq(entries, 1, n - 1))
             e == entries[n]
             k == Cardinality({i \in DOMAIN front : front[i].aqi > e.aqi})
         IN  SubSeq(front, 1, k) \o <<e>> \o SubSeq(front, k + 1, Len(front))

\* list.sort(key=aqi, reverse=True): stable, equal entries keep their order.
RECURSIVE sort_by_aqi_desc(_)
sort_by_aqi_desc(entries) ==
    IF entries = << >> THEN << >>
    ELSE LET n == Len(entries)
             front == sort_by_aqi_desc(SubSeq(entries, 1, n - 1))
             e == entries[n]
             k == Cardinality({i \in DOMAIN front : front[i].aqi >= e.aqi})
         IN  SubSeq(front, 1, k) \o <<e>> \o SubSeq(front, k + 1, Len(front))

\* The colour a ranking line is drawn in: yellow is replaced by dark orange.
display_color(color) == IF color = "#ffff00" THEN "#FF8C00" ELSE color

(* create_polluted_cities_ranking(): the first ten entries by AQI, each     *)
(* with the colour it is drawn in.                                          *)
create_polluted_cities_ranking(st) ==
    LET df == load_latest_data(st)
        city_rankings == sort_by_aqi_desc([k \in DOMAIN df |-> ranking_entry(df[k])])
        top_10 == SubSeq(city_rankings, 1, min_(10, Len(city_rankings)))
    IN  [i \in DOMAIN top_10 |->
            [city |-> top_10[i].city, aqi |-> top_10[i].aqi, status |-> top_10[i].status,
             display_color |-> display_color(top_10[i].color),
             standard_multiplier |-> top_10[i].standard_multiplier]]

(* A row of the table with every pollutant column: the three cells given,  *)
(* the others fixed.                                                        *)
reading(site, datetime, pm25) ==
    [site |-> site, datetime |-> datetime, pm25 |-> pm25, pm10 |-> 200, no2 |-> 300,
     o3 |-> 400, co |-> 10, so2 |-> 20]

\* The rows drawn for the table when the module is loaded on it.
LoadRows == {reading(Sites[i], t, p) : i \in DOMAIN Sites, t \in {750, 770}, p \in {80, 1504}}

\* The rows drawn for the table behind a served dashboard: one pm25 per site.
DashRows ==
    {reading(Sites[i], t, IF i = 1 THEN 80 ELSE 1504) : i \in DOMAIN Sites, t \in {750, 770}}

(* The rows drawn for the table create_trend_chart reads: three datetimes   *)
(* of the first site and one of the second.                                 *)
TrendRows ==
    {reading(Sites[1], t, 354) : t \in {600, 750, 770}} \cup {reading(Sites[2], 770, 80)}

\* A row without the columns named.
without(row, keys) == [k \in DOMAIN row \ keys |-> row[k]]

(* The readings drawn for the cards, with their sites: one in the first     *)
(* band of every scale, one on the halves between whole numbers, one high   *)
(* on every scale.                                                          *)
CardReadings ==
    {[site |-> Sites[1], datetime |-> 770,
      pm25 |-> 80, pm10 |-> 200, no2 |-> 300, o3 |-> 400, co |-> 10, so2 |-> 20],
     [site |-> Sites[1], datetime |-> 770,
      pm25 |-> 354, pm10 |-> 545, no2 |-> 534, o3 |-> 545, co |-> 45, so2 |-> 355],
     [site |-> Sites[2], datetime |-> 770,
      pm25 |-> 1504, pm10 |-> 2545, no2 |-> 3600, o3 |-> 860, co |-> 950, so2 |-> 3040]}

(* The rows drawn for the table the cards are built from, for a table with  *)
(* every column and for tables without the column co, so2 or both.          *)
CardRows ==
    {without(v, keys) : v \in CardReadings, keys \in {{}, {"co"}, {"so2"}, {"co", "so2"}}}

\* The pm25 drawn for the one row of a site of the ranking's table.
RankingPm25 == {80, 354}

\* The hours between a row of the historical graph's table and the next.
GraphGaps == {1, 30}

\* Largest limit drawn for a call of load_historical_data_sample.
MaxLimit == 3

\* Largest number of points of a series drawn for the bar graph.
MaxPoints == 4

\* The values of the points drawn for the bar graph.
BarValues == {0, 80, 354}

\* The values of datetime.now() drawn, in hours.
NowInputs == {780, 794}

\* The options of the widget time_range.
TimeRanges == {"Last 24 Hours", "Last 7 Days", "Last 30 Days"}

\* The options of the widget pollutant_selector.
PollutantOptions == {"AQI", "PM2.5", "PM10", "NO2", "O3", "CO", "SO2"}

\* update_graph_header not registered.
city_watchers_no_header ==
    <<"update_map", "update_aqi_card", "update_pollutant_cards", "update_aqi_graph">>

\* The watchers of city_selector.param.value, in the order they are registered.
city_watchers ==
    <<"update_map", "update_aqi_card", "update_pollutant_cards", "update_aqi_graph",
      "update_graph_header">>

-----------------------------------------------------------------------------
Init ==
    /\ aqi_calls = << >>
    /\ status_calls = << >>
    /\ pollutant_calls = << >>
    /\ store = << >>
    /\ phase = "offline"
    /\ latest_data = << >>
    /\ cities = << >>
    /\ city_selector = NoneCity
    /\ time_range = "Last 24 Hours"
    /\ pollutant_selector = "AQI"
    /\ selected_pollutant = "AQI"
    /\ current_view = "dashboard"
    /\ map_pane = [fn |-> "unset"]
    /\ aqi_card = [fn |-> "unset"]
    /\ pollutant_cards = [fn |-> "unset"]
    /\ aqi_graph = [fn |-> "unset"]
    /\ graph_header = [fn |-> "unset"]
    /\ city_cards = << >>
    /\ polluted_ranking = << >>
    /\ watchers = << >>
    /\ trend_chart = << >>
    /\ view_calls = << >>

\* A caller evaluates calc_aqi(p).
CallCalcAqi(p) ==
    /\ aqi_calls' = LastTwo(Append(aqi_calls, [pm25 |-> p, aqi |-> calc_aqi(p)]))
    /\ UNCHANGED <<status_calls, pollutant_calls, dash_vars>>

NextAqi == \E p \in Pm25Inputs : CallCalcAqi(p)

SpecAqi == Init /\ [][NextAqi]_vars

\* A caller evaluates get_aqi_status(a).
CallGetAqiStatus(a) ==
    /\ status_calls' = <<[aqi |-> a, ret |-> get_aqi_status(a)]>>
    /\ UNCHANGED <<aqi_calls, pollutant_calls, dash_vars>>

NextStatus == \E a \in AqiInputs : CallGetAqiStatus(a)

SpecStatus == Init /\ [][NextStatus]_vars

\* A caller evaluates get_pollutant_status(k, x).
CallGetPollutantStatus(k, x) ==
    /\ pollutant_calls' =
         <<[pollutant |-> k, value |-> x, ret |-> get_pollutant_status(k, x)]>>
    /\ UNCHANGED <<aqi_calls, status_calls, dash_vars>>

NextPollutant ==
    \E k \in Kinds \cup OtherKinds : \E x \in ValueInputs : CallGetPollutantStatus(k, x)

SpecPollutant == Init /\ [][NextPollutant]_vars

\* A caller evaluates get_pollutant_status(k, x); the call before it is kept.
CallGetPollutantStatusAgain(k, x) ==
    /\ pollutant_calls' =
         LastTwo(Append(pollutant_calls,
            [pollutant |-> k, value |-> x, ret |-> get_pollutant_status(k, x)]))
    /\ UNCHANGED <<aqi_calls, status_calls, dash_vars>>

NextPartition ==
    \E k \in Kinds : \E x \in KindInputs(k) : CallGetPollutantStatusAgain(k, x)

SpecPartition == Init /\ [][NextPartition]_vars

\* The AQI values drawn when both classifiers are called: around every band edge.
ScaleAqiInputs ==
    {e + d : e \in {0, 50, 100, 150, 200, 300, 500}, d \in (0 - Window)..Window}

\* The values drawn for a pollutant argument k when both classifiers are called.
ScaleValueInputs(k) ==
    IF k \in Kinds THEN KindInputs(k) \cup {NaN, None} ELSE {Num(100), NaN, None}

\* Callers evaluate get_aqi_status and get_pollutant_status in any order.
NextScales ==
    \/ \E a \in ScaleAqiInputs : CallGetAqiStatus(a)
    \/ \E k \in Kinds \cup OtherKinds :
          \E x \in ScaleValueInputs(k) : CallGetPollutantStatus(k, x)

SpecScales == Init /\ [][NextScales]_vars

(* The cards of one reading: create_aqi_card evaluates calc_aqi of its      *)
(* pm25 and get_aqi_status of the result, create_pollutant_cards evaluates  *)
(* get_pollutant_status('PM2.5', pm25).  The reading before it is kept.     *)
ClassifyReading(p) ==
    /\ aqi_calls' = LastTwo(Append(aqi_calls, [pm25 |-> p, aqi |-> calc_aqi(p)]))
    /\ status_calls' =
         LastTwo(Append(status_calls,
            [aqi |-> calc_aqi(p), ret |-> get_aqi_status(calc_aqi(p))]))
    /\ pollutant_calls' =
         LastTwo(Append(pollutant_calls,
            [pollutant |-> "PM2.5", value |-> Num(p),
             ret |-> get_pollutant_status("PM2.5", Num(p))]))
    /\ UNCHANGED dash_vars

NextReading == \E p \in Pm25Inputs : ClassifyReading(p)

SpecReading == Init /\ [][NextReading]_vars

-----------------------------------------------------------------------------
(* The dashboard.  The table is filled before the module is loaded and is   *)
(* not written afterwards.  The server handles one event at a time: the     *)
(* watchers of a change run one after the other before the next event.      *)

\* A row is added to the table, with the columns it has, before the dashboard starts.
Insert(r) ==
    /\ phase = "offline"
    /\ Len(store) < MaxRows
    /\ \A i \in DOMAIN store : DOMAIN store[i] = DOMAIN r
    /\ store' = Append(store, r)
    /\ UNCHANGED <<engine_vars, phase, widget_vars, pane_vars, static_vars, watchers,
                   trend_chart, view_calls>>

\* The module is loaded: the snapshot, the widgets and the panes are built.
Startup ==
    /\ phase = "offline"
    /\ phase' = "serving"
    /\ latest_data' = load_latest_data(store)
    /\ cities' = get_cities_list(store)
    /\ selected_pollutant' = "AQI"
    /\ current_view' = "dashboard"
    /\ city_selector' = IF cities' # << >> THEN cities'[1] ELSE NoneCity
    /\ pollutant_selector' = "AQI"
    /\ time_range' = "Last 24 Hours"
    /\ map_pane' = create_map(latest_data', city_selector')
    /\ aqi_card' = create_aqi_card(latest_data', city_selector')
    /\ pollutant_cards' = create_pollutant_cards(latest_data', city_selector')
    /\ aqi_graph' \in create_historical_aqi_graph(store, city_selector')
    /\ graph_header' = create_graph_header(city_selector')
    /\ city_cards' = create_city_cards(store)
    /\ polluted_ranking' = create_polluted_cities_ranking(store)
    /\ UNCHANGED <<engine_vars, store, watchers, trend_chart, view_calls>>

NextLoad == (\E r \in LoadRows : Insert(r)) \/ Startup

SpecLoad == Init /\ [][NextLoad]_vars

\* The user picks another city: the value changes and its watchers are due.
SelectCity(city) ==
    /\ phase = "serving" /\ watchers = << >>
    /\ city \in {cities[i] : i \in DOMAIN cities}
    /\ city # city_selector
    /\ city_selector' = city
    /\ watchers' = city_watchers
    /\ UNCHANGED <<engine_vars, store, phase, time_range, pollutant_selector, pane_vars,
                   static_vars, trend_chart, view_calls>>

\* The user picks another time range; nothing watches this widget.
SelectTimeRange(range) ==
    /\ phase = "serving" /\ watchers = << >>
    /\ range # time_range
    /\ time_range' = range
    /\ UNCHANGED <<engine_vars, store, phase, city_selector, pollutant_selector,
                   pane_vars, static_vars, watchers, trend_chart, view_calls>>

\* A callback of pollutant_selector that records the choice in the module.
SelectPollutant_recorded(pollutant) ==
    /\ phase = "serving" /\ watchers = << >>
    /\ pollutant # pollutant_selector
    /\ pollutant_selector' = pollutant
    /\ selected_pollutant' = pollutant
    /\ UNCHANGED <<engine_vars, store, phase, city_selector, time_range, pane_vars,
                   latest_data, cities, current_view, city_cards, polluted_ranking,
                   watchers, trend_chart, view_calls>>

\* The user picks another pollutant; nothing watches this widget.
SelectPollutant(pollutant) ==
    /\ phase = "serving" /\ watchers = << >>
    /\ pollutant # pollutant_selector
    /\ pollutant_selector' = pollutant
    /\ UNCHANGED <<engine_vars, store, phase, city_selector, time_range, pane_vars,
                   static_vars, watchers, trend_chart, view_calls>>

update_map ==
    /\ watchers # << >> /\ Head(watchers) = "update_map"
    /\ map_pane' = create_map(latest_data, city_selector)
    /\ watchers' = Tail(watchers)
    /\ UNCHANGED <<engine_vars, store, phase, widget_vars, aqi_card, pollutant_cards,
                   aqi_graph, graph_header, static_vars, trend_chart, view_calls>>

update_aqi_card ==
    /\ watchers # << >> /\ Head(watchers) = "update_aqi_card"
    /\ aqi_card' = create_aqi_card(latest_data, city_selector)
    /\ watchers' = Tail(watchers)
    /\ UNCHANGED <<engine_vars, store, phase, widget_vars, map_pane, pollutant_cards,
                   aqi_graph, graph_header, static_vars, trend_chart, view_calls>>

update_pollutant_cards ==
    /\ watchers # << >> /\ Head(watchers) = "update_pollutant_cards"
    /\ pollutant_cards' = create_pollutant_cards(latest_data, city_selector)
    /\ watchers' = Tail(watchers)
    /\ UNCHANGED <<engine_vars, store, phase, widget_vars, map_pane, aqi_card,
                   aqi_graph, graph_header, static_vars, trend_chart, view_calls>>

update_aqi_graph ==
    /\ watchers # << >> /\ Head(watchers) = "update_aqi_graph"
    /\ aqi_graph' \in create_historical_aqi_graph(store, city_selector)
    /\ watchers' = Tail(watchers)
    /\ UNCHANGED <<engine_vars, store, phase, widget_vars, map_pane, aqi_card,
                   pollutant_cards, graph_header, static_vars, trend_chart, view_calls>>

update_graph_header ==
    /\ watchers # << >> /\ Head(watchers) = "update_graph_header"
    /\ graph_header' = create_graph_header(city_selector)
    /\ watchers' = Tail(watchers)
    /\ UNCHANGED <<engine_vars, store, phase, widget_vars, map_pane, aqi_card,
                   pollutant_cards, aqi_graph, static_vars, trend_chart, view_calls>>

NextDashboard ==
    \/ \E r \in DashRows : Insert(r)
    \/ Startup
    \/ \E city \in {Sites[i] : i \in DOMAIN Sites} : SelectCity(city)
    \/ \E range \in TimeRanges : SelectTimeRange(range)
    \/ \E pollutant \in PollutantOptions : SelectPollutant(pollutant)
    \/ update_map
    \/ update_aqi_card
    \/ update_pollutant_cards
    \/ update_aqi_graph
    \/ update_graph_header

SpecDashboard == Init /\ [][NextDashboard]_vars

(* A caller evaluates create_trend_chart(city, range) at the time now; the   *)
(* call is kept with the table it read.                                     *)
CallCreateTrendChart(city, range, now) ==
    /\ \E fig \in create_trend_chart(store, city, range, now) :
          trend_chart' = <<[table |-> store, city |-> city, time_range |-> range,
                            now |-> now, fig |-> fig]>>
    /\ UNCHANGED <<engine_vars, store, phase, widget_vars, pane_vars, static_vars,
                   watchers, view_calls>>

NextTrend ==
    \/ \E r \in TrendRows : Insert(r)
    \/ \E city \in {Sites[i] : i \in DOMAIN Sites} \cup {NoneCity} :
          \E range \in TimeRanges : \E now \in NowInputs :
              CallCreateTrendChart(city, range, now)

SpecTrend == Init /\ [][NextTrend]_vars

\* A caller evaluates create_aqi_card(city) on the served dashboard.
CallCreateAqiCard(city) ==
    /\ phase = "serving"
    /\ view_calls' = LastTwo(Append(view_calls,
            [fn |-> "create_aqi_card", city |-> city,
             ret |-> create_aqi_card(latest_data, city)]))
    /\ UNCHANGED <<engine_vars, store, phase, widget_vars, pane_vars, static_vars,
                   watchers, trend_chart>>

\* A caller evaluates create_pollutant_cards(city) on the served dashboard.
CallCreatePollutantCards(city) ==
    /\ phase = "serving"
    /\ view_calls' = LastTwo(Append(view_calls,
            [fn |-> "create_pollutant_cards", city |-> city,
             ret |-> create_pollutant_cards(latest_data, city)]))
    /\ UNCHANGED <<engine_vars, store, phase, widget_vars, pane_vars, static_vars,
                   watchers, trend_chart>>

\* A caller evaluates get_pollutant_info(pollutant).
CallGetPollutantInfo(pollutant) ==
    /\ view_calls' = <<[fn |-> "get_pollutant_info", pollutant |-> pollutant,
                        ret |-> get_pollutant_info(pollutant)]>>
    /\ UNCHANGED <<engine_vars, store, phase, widget_vars, pane_vars, static_vars,
                   watchers, trend_chart>>

NextCards ==
    \/ \E r \in CardRows : Insert(r)
    \/ Startup
    \/ \E pollutant \in PollutantOptions : CallGetPollutantInfo(pollutant)
    \/ \E city \in {Sites[i] : i \in DOMAIN Sites} \cup {NoneCity} :
          \/ CallCreateAqiCard(city)
          \/ CallCreatePollutantCards(city)

SpecCards == Init /\ [][NextCards]_vars

(* The table is filled site by site, one row a site, before the dashboard   *)
(* starts.                                                                  *)
InsertSite(p) ==
    /\ phase = "offline"
    /\ Len(store) < MaxSites
    /\ store' = Append(store, reading(SiteNames[Len(store) + 1], 770, p))
    /\ UNCHANGED <<engine_vars, phase, widget_vars, pane_vars, static_vars, watchers,
                   trend_chart, view_calls>>

(* A caller evaluates create_polluted_cities_ranking(); the call is kept    *)
(* with the table it read.                                                  *)
CallCreatePollutedCitiesRanking ==
    /\ view_calls' = <<[fn |-> "create_polluted_cities_ranking", table |-> store,
                        ret |-> create_polluted_cities_ranking(store)]>>
    /\ UNCHANGED <<engine_vars, store, phase, widget_vars, pane_vars, static_vars,
                   watchers, trend_chart>>

NextRanking ==
    \/ \E p \in RankingPm25 : InsertSite(p)
    \/ CallCreatePollutedCitiesRanking

SpecRanking == Init /\ [][NextRanking]_vars

(* The table gets the next reading of the first site, gap hours after the   *)
(* last one, before the dashboard starts; one gap may be longer than a day. *)
InsertLater(gap) ==
    /\ phase = "offline"
    /\ Len(store) < MaxGraphRows
    /\ gap > 24 => /\ store # << >>
                   /\ \A i \in 1..(Len(store) - 1) :
                         store[i + 1].datetime - store[i].datetime <= 24
    /\ store' = Append(store,
            reading(Sites[1],
                    IF store = << >> THEN gap ELSE store[Len(store)].datetime + gap,
                    100 + 10 * Len(store)))
    /\ UNCHANGED <<engine_vars, phase, widget_vars, pane_vars, static_vars, watchers,
                   trend_chart, view_calls>>

(* A caller evaluates create_historical_aqi_graph(city); the call is kept   *)
(* with the table it read.                                                  *)
CallCreateHistoricalAqiGraph(city) ==
    /\ \E fig \in create_historical_aqi_graph(store, city) :
          view_calls' = <<[fn |-> "create_historical_aqi_graph", city |-> city,
                           table |-> store, ret |-> fig]>>
    /\ UNCHANGED <<engine_vars, store, phase, widget_vars, pane_vars, static_vars,
                   watchers, trend_chart>>

NextGraph ==
    \/ \E gap \in GraphGaps : InsertLater(gap)
    \/ \E city \in {Sites[1], Sites[2], NoneCity, ""} : CallCreateHistoricalAqiGraph(city)

SpecGraph == Init /\ [][NextGraph]_vars

(* A caller evaluates load_historical_data_sample(site, limit); the call is *)
(* kept with the table it read.                                             *)
CallLoadHistoricalDataSample(site, limit) ==
    /\ \E df \in load_historical_data_sample(store, site, limit) :
          view_calls' = <<[fn |-> "load_historical_data_sample", site |-> site,
                           limit |-> limit, table |-> store, ret |-> df]>>
    /\ UNCHANGED <<engine_vars, store, phase, widget_vars, pane_vars, static_vars,
                   watchers, trend_chart>>

NextSample ==
    \/ \E r \in TrendRows : Insert(r)
    \/ \E site \in {Sites[1], Sites[2], NoneCity, ""} : \E limit \in 0..MaxLimit :
          CallLoadHistoricalDataSample(site, limit)

SpecSample == Init /\ [][NextSample]_vars

(* A caller evaluates create_detailed_pollutant_view(city, pollutant); the  *)
(* call is kept with the table it read.                                     *)
CallCreateDetailedPollutantView(city, pollutant) ==
    /\ \E out \in create_detailed_pollutant_view(store, city, pollutant) :
          view_calls' = <<[fn |-> "create_detailed_pollutant_view", city |-> city,
                           pollutant |-> pollutant, table |-> store, ret |-> out]>>
    /\ UNCHANGED <<engine_vars, store, phase, widget_vars, pane_vars, static_vars,
                   watchers, trend_chart>>

NextDetail ==
    \/ \E r \in DashRows : Insert(r)
    \/ \E city \in {Sites[i] : i \in DOMAIN Sites} : \E pollutant \in PollutantOptions :
          CallCreateDetailedPollutantView(city, pollutant)

SpecDetail == Init /\ [][NextDetail]_vars

\* A caller evaluates generate_real_historical_graph on a series of these values.
CallGenerateRealHistoricalGraph(values) ==
    /\ view_calls' = <<[fn |-> "generate_real_historical_graph", values |-> values,
                        ret |-> generate_real_historical_graph(values)]>>
    /\ UNCHANGED <<engine_vars, store, phase, widget_vars, pane_vars, static_vars,
                   watchers, trend_chart>>

NextBars ==
    \E n \in 0..MaxPoints : \E values \in [1..n -> BarValues] :
        CallGenerateRealHistoricalGraph(values)

SpecBars == Init /\ [][NextBars]_vars

-----------------------------------------------------------------------------
(* The tables of the specification, in tenths, against which the            *)
(* functions are compared.                                                  *)

\* Section 4.1: <<lo, hi, alo, ahi>> of the seven segments of the AQI transform.
SpecAqiSegments ==
    << <<0, 120, 0, 50>>, <<120, 354, 50, 100>>, <<354, 554, 100, 150>>,
       <<554, 1504, 150, 200>>, <<1504, 2504, 200, 300>>,
       <<2504, 3504, 300, 400>>, <<3504, 5004, 400, 500>> >>

\* The segment a concentration c in [0, 500.4] falls in: c = hi closes a segment.
SpecSegmentOf(c) ==
    CHOOSE i \in 1..Len(SpecAqiSegments) :
        /\ c <= SpecAqiSegments[i][2]
        /\ i > 1 => c > SpecAqiSegments[i][1]

\* floor(alo + (c - lo) / (hi - lo) * (ahi - alo)) for c in segment i, c >= lo.
SpecInterpolate(c, i) ==
    LET seg == SpecAqiSegments[i]
    IN  seg[3] + ((c - seg[1]) * (seg[4] - seg[3])) \div (seg[2] - seg[1])

\* Section 4.1: the label of the severity band of an AQI.
SpecAqiLabel(a) ==
    IF a \in 0..50 THEN "Good"
    ELSE IF a \in 51..100 THEN "Moderate"
    ELSE IF a \in 101..150 THEN "Unhealthy for Sensitive Groups"
    ELSE IF a \in 151..200 THEN "Unhealthy"
    ELSE IF a \in 201..300 THEN "Very Unhealthy"
    ELSE "Hazardous"

\* Section 4.2: the five upper bounds of each pollutant's table.
SpecBounds ==
    [k \in Kinds |->
        CASE k = "PM2.5" -> <<120, 354, 554, 1504, 2504>>
          [] k = "PM10" -> <<540, 1540, 2540, 3540, 4240>>
          [] k = "NO2" -> <<530, 1000, 3600, 6490, 12490>>
          [] k = "O3" -> <<540, 700, 850, 1050, 2000>>
          [] k = "CO" -> <<44, 94, 124, 154, 304>>
          [] k = "SO2" -> <<350, 750, 1850, 3040, 6040>>]

\* Section 4.2: the labels of the bands, in scan order.
SpecLabels == <<"Good", "Moderate", "Poor", "Unhealthy", "Severe", "Hazardous">>

\* The label of the first band of kind k whose upper bound is >= x.
SpecClassify(k, x) ==
    IF \E i \in 1..5 : SpecBounds[k][i] >= x
    THEN SpecLabels[CHOOSE i \in 1..5 :
            /\ SpecBounds[k][i] >= x
            /\ \A j \in 1..(i - 1) : SpecBounds[k][j] < x]
    ELSE "Hazardous"

-----------------------------------------------------------------------------
(* C1: calc_aqi is monotonically non-decreasing: of two calls with          *)
(* 0 <= a <= b, the one with a returns no more than the one with b.         *)
C1_Monotone ==
    \A i, j \in DOMAIN aqi_calls :
        (0 <= aqi_calls[i].pm25 /\ aqi_calls[i].pm25 <= aqi_calls[j].pm25)
            => aqi_calls[i].aqi <= aqi_calls[j].aqi

(* C2: for every pm25 >= 0, calc_aqi(pm25) is an integer in [0, 500].       *)
C2_Bounded ==
    \A i \in DOMAIN aqi_calls :
        aqi_calls[i].pm25 >= 0 => aqi_calls[i].aqi \in 0..500

\* C2 witness: the top of the fourth segment, where the result is 250.
C2_Witness ==
    \E i \in DOMAIN aqi_calls :
        aqi_calls[i].pm25 = 1504 /\ aqi_calls[i].aqi \in 201..500

(* C3: for every pm25 in [0, 500.4], calc_aqi(pm25) lies inside the AQI     *)
(* range the table assigns to the segment containing pm25.                  *)
C3_InSegmentRange ==
    \A i \in DOMAIN aqi_calls :
        aqi_calls[i].pm25 \in 0..5004 =>
            LET seg == SpecAqiSegments[SpecSegmentOf(aqi_calls[i].pm25)]
            IN  aqi_calls[i].aqi \in seg[3]..seg[4]

(* C4: for every pm25 in [0, 500.4], calc_aqi(pm25) equals                  *)
(* floor(alo + (pm25 - lo) / (hi - lo) * (ahi - alo)) on the table segment  *)
(* pm25 falls in.                                                           *)
C4_Interpolation ==
    \A i \in DOMAIN aqi_calls :
        aqi_calls[i].pm25 \in 0..5004 =>
            aqi_calls[i].aqi =
                SpecInterpolate(aqi_calls[i].pm25, SpecSegmentOf(aqi_calls[i].pm25))

(* C5: calc_aqi(0) = 0, calc_aqi(12) = 50, calc_aqi(35.4) = 100 and         *)
(* calc_aqi(600) = 500.                                                     *)
C5_Anchors ==
    \A i \in DOMAIN aqi_calls :
        /\ aqi_calls[i].pm25 = 0 => aqi_calls[i].aqi = 0
        /\ aqi_calls[i].pm25 = 120 => aqi_calls[i].aqi = 50
        /\ aqi_calls[i].pm25 = 354 => aqi_calls[i].aqi = 100
        /\ aqi_calls[i].pm25 = 6000 => aqi_calls[i].aqi = 500

\* C5 witness: calc_aqi(35.4) and calc_aqi(600) have been evaluated.
C5_Witness ==
    /\ Len(aqi_calls) = 2
    /\ aqi_calls[1] = [pm25 |-> 354, aqi |-> 100]
    /\ aqi_calls[2] = [pm25 |-> 6000, aqi |-> 500]

(* C6: for every pm25 greater than 500.4, and for pm25 = 500.4,             *)
(* calc_aqi(pm25) is exactly 500.                                           *)
C6_Clamp ==
    \A i \in DOMAIN aqi_calls :
        aqi_calls[i].pm25 >= 5004 => aqi_calls[i].aqi = 500

\* C6 witness: calc_aqi at 500.4 and just above it.
C6_Witness ==
    /\ Len(aqi_calls) = 2
    /\ aqi_calls[1].pm25 = 5004 /\ aqi_calls[1].aqi = 500
    /\ aqi_calls[2].pm25 = 5005 /\ aqi_calls[2].aqi = 500

(* C7: get_aqi_status maps every integer AQI in 0..500 to the label of the  *)
(* banding table: 0-50 Good, 51-100 Moderate, 101-150 Unhealthy for         *)
(* Sensitive Groups, 151-200 Unhealthy, 201-300 Very Unhealthy, 301 and     *)
(* above Hazardous.                                                         *)
C7_AqiBands ==
    \A i \in DOMAIN status_calls :
        status_calls[i].aqi \in 0..500 =>
            status_calls[i].ret[1] = SpecAqiLabel(status_calls[i].aqi)

\* C7 witness: the first AQI of the last band.
C7_Witness ==
    \E i \in DOMAIN status_calls :
        status_calls[i].aqi = 301 /\ status_calls[i].ret[1] = "Hazardous"

(* C8: for each of the six kinds and every non-negative value,              *)
(* get_pollutant_status returns the label of the first band whose upper     *)
(* bound is >= the value, and Hazardous when no bound is.                   *)
C8_FirstBand ==
    \A i \in DOMAIN pollutant_calls :
        LET c == pollutant_calls[i]
        IN  (c.pollutant \in Kinds /\ c.value.tag = "num" /\ c.value.v >= 0)
                => c.ret[1] = SpecClassify(c.pollutant, c.value.v)

\* C8 witness: PM10 at 500 is past every bound.
C8_Witness ==
    \E i \in DOMAIN pollutant_calls :
        /\ pollutant_calls[i].pollutant = "PM10"
        /\ pollutant_calls[i].value = Num(5000)
        /\ pollutant_calls[i].ret[1] = "Hazardous"

(* C9: at exactly an upper bound u of its table get_pollutant_status        *)
(* returns the band u closes, and one tenth above u the next band.          *)
C9_BoundaryExact ==
    \A i \in DOMAIN pollutant_calls :
        LET c == pollutant_calls[i]
        IN  (c.pollutant \in Kinds /\ c.value.tag = "num") =>
                \A b \in 1..5 :
                    /\ c.value.v = SpecBounds[c.pollutant][b]
                            => c.ret[1] = SpecLabels[b]
                    /\ c.value.v = SpecBounds[c.pollutant][b] + 1
                            => c.ret[1] = SpecLabels[b + 1]

\* C9 witness: PM2.5 at 12.1, one tenth above the first bound.
C9_Witness ==
    \E i \in DOMAIN pollutant_calls :
        /\ pollutant_calls[i].pollutant = "PM2.5"
        /\ pollutant_calls[i].value = Num(121)
        /\ pollutant_calls[i].ret[1] = "Moderate"

(* C10: for every pollutant argument that is not one of the six kinds       *)
(* ('AQI' included) and every value, get_pollutant_status raises nothing    *)
(* and returns 'Unknown' with the colours '#666666' and '#f5f5f5'.          *)
C10_Unknown ==
    \A i \in DOMAIN pollutant_calls :
        pollutant_calls[i].pollutant \notin Kinds
            => pollutant_calls[i].ret = <<"Unknown", "#666666", "#f5f5f5">>

\* C10 witness: 'AQI' with a value of None.
C10_Witness ==
    \E i \in DOMAIN pollutant_calls :
        /\ pollutant_calls[i].pollutant = "AQI"
        /\ pollutant_calls[i].value = None
        /\ pollutant_calls[i].ret[1] = "Unknown"

\* The severity rank of a label of the pollutant scale: Good = 0 ... Hazardous = 5.
SpecRank(label) == (CHOOSE r \in 1..6 : SpecLabels[r] = label) - 1

(* C11: each pollutant's table is a total partition of the non-negative     *)
(* values: every non-negative value maps to one of the six categories, the  *)
(* severity rank never decreases as the value increases, and each of the    *)
(* six bands holds some value (the five bounds are strictly increasing).    *)
C11_Partition ==
    /\ \A i \in DOMAIN pollutant_calls :
          (pollutant_calls[i].pollutant \in Kinds /\ pollutant_calls[i].value.tag = "num"
              /\ pollutant_calls[i].value.v >= 0)
            => \E r \in 1..6 : pollutant_calls[i].ret[1] = SpecLabels[r]
    /\ \A i, j \in DOMAIN pollutant_calls :
          LET a == pollutant_calls[i]
              b == pollutant_calls[j]
          IN  (a.pollutant \in Kinds /\ a.pollutant = b.pollutant
                /\ a.value.tag = "num" /\ b.value.tag = "num"
                /\ 0 <= a.value.v /\ a.value.v <= b.value.v)
                => SpecRank(a.ret[1]) <= SpecRank(b.ret[1])
    /\ \A k \in Kinds : \A r \in 1..6 :
          \E x \in KindInputs(k) :
              x.v >= 0 /\ get_pollutant_status(k, x)[1] = SpecLabels[r]

\* C11 witness: CO at 4.4 and at 4.5, on the two sides of the first bound.
C11_Witness ==
    /\ Len(pollutant_calls) = 2
    /\ pollutant_calls[1].pollutant = "CO" /\ pollutant_calls[1].value = Num(44)
    /\ pollutant_calls[1].ret[1] = "Good"
    /\ pollutant_calls[2].pollutant = "CO" /\ pollutant_calls[2].value = Num(45)
    /\ pollutant_calls[2].ret[1] = "Moderate"

(* C13: for every negative pm25, calc_aqi signals InvalidInput or returns   *)
(* 0, never a negative AQI.  calc_aqi has no raise and no test of the sign, *)
(* so of the two outcomes only the return of 0 can occur.                   *)
C13_NegativeInput ==
    \A i \in DOMAIN aqi_calls :
        aqi_calls[i].pm25 < 0 => aqi_calls[i].aqi = 0

(* C14: the two label scales are separate: get_pollutant_status returns a   *)
(* label in {Good, Moderate, Poor, Unhealthy, Severe, Hazardous, Unknown}   *)
(* for every kind and every float value, and never 'Unhealthy for Sensitive *)
(* Groups' or 'Very Unhealthy'; get_aqi_status returns a label of its own   *)
(* six and never 'Poor' or 'Severe'.                                        *)
C14_SeparateScales ==
    /\ \A i \in DOMAIN pollutant_calls :
          /\ pollutant_calls[i].ret[1]
                \notin {"Unhealthy for Sensitive Groups", "Very Unhealthy"}
          /\ pollutant_calls[i].value.tag # "none" =>
                pollutant_calls[i].ret[1] \in
                    {"Good", "Moderate", "Poor", "Unhealthy", "Severe",
                     "Hazardous", "Unknown"}
    /\ \A i \in DOMAIN status_calls :
          /\ status_calls[i].ret[1] \notin {"Poor", "Severe"}
          /\ status_calls[i].ret[1] \in
                {"Good", "Moderate", "Unhealthy for Sensitive Groups", "Unhealthy",
                 "Very Unhealthy", "Hazardous"}

\* C14 witness: the third band of each scale, under its own name.
C14_Witness ==
    /\ \E i \in DOMAIN pollutant_calls : pollutant_calls[i].ret[1] = "Poor"
    /\ \E i \in DOMAIN status_calls :
          status_calls[i].ret[1] = "Unhealthy for Sensitive Groups"

\* Section 4.1: the labels of the AQI bands, in order of severity.
SpecAqiLabels ==
    <<"Good", "Moderate", "Unhealthy for Sensitive Groups", "Unhealthy",
      "Very Unhealthy", "Hazardous">>

\* The severity rank of a label of the AQI scale: Good = 0 ... Hazardous = 5.
SpecAqiRank(label) == (CHOOSE r \in 1..6 : SpecAqiLabels[r] = label) - 1

(* C17: the severity band of the derived AQI never decreases as PM2.5       *)
(* rises: of two readings with 0 <= a <= b, the rank of                     *)
(* get_aqi_status(calc_aqi(a)) is <= that of get_aqi_status(calc_aqi(b)).   *)
C17_BandMonotone ==
    \A i, j \in DOMAIN aqi_calls :
        (0 <= aqi_calls[i].pm25 /\ aqi_calls[i].pm25 <= aqi_calls[j].pm25)
            => SpecAqiRank(status_calls[i].ret[1]) <= SpecAqiRank(status_calls[j].ret[1])

(* C18: for every pm25 in [0, 250.4] the rank of the AQI band of the        *)
(* reading equals the rank of its PM2.5 band.                               *)
C18_SameRank ==
    \A i \in DOMAIN aqi_calls :
        aqi_calls[i].pm25 \in 0..2504 =>
            SpecAqiRank(status_calls[i].ret[1]) = SpecRank(pollutant_calls[i].ret[1])

-----------------------------------------------------------------------------
(* The views on the table, as the specification words them.                 *)

\* How often a row occurs in a sequence of rows.
SpecCount(rows, r) == Cardinality({i \in DOMAIN rows : rows[i] = r})

\* The rows of a sequence, as a set.
SpecRowsOf(rows) == {rows[i] : i \in DOMAIN rows}

\* Two sequences hold the same rows the same number of times.
SpecSameRows(a, b) ==
    \A r \in SpecRowsOf(a) \cup SpecRowsOf(b) : SpecCount(a, r) = SpecCount(b, r)

\* The rows are in the order of their datetime, earliest first.
SpecAscending(rows) ==
    \A i, j \in DOMAIN rows : i < j => rows[i].datetime <= rows[j].datetime

\* The duration of a time range, in hours.
SpecDuration(range) ==
    CASE range = "Last 24 Hours" -> 24
      [] range = "Last 7 Days"   -> 168
      [] range = "Last 30 Days"  -> 720

\* "bounded recent window per site": the rows of the site from now - duration on.
SpecWindow(st, city, range, now) ==
    SelectSeq(st, LAMBDA r : r.site = city /\ r.datetime >= now - SpecDuration(range))

(* C15: the "latest reading per site" view holds exactly one row for every  *)
(* site of the store, a row of the store that carries the site's maximum    *)
(* datetime, also when two rows of the site share that maximum.             *)
C15_OneRowPerSite ==
    phase = "serving" =>
        /\ site_values(latest_data) = site_values(store)
        /\ \A s \in site_values(store) :
              /\ Len(of_site(latest_data, s)) = 1
              /\ first_row(latest_data, s) \in SpecRowsOf(store)
              /\ \A i \in DOMAIN store :
                    store[i].site = s =>
                        store[i].datetime <= first_row(latest_data, s).datetime

(* C16 as claimed: the view of create_trend_chart holds exactly the rows of *)
(* the chosen site with datetime >= now - duration, none missing, ordered   *)
(* by datetime ascending.                                                   *)
C16_WholeWindow ==
    \A i \in DOMAIN trend_chart :
        LET c == trend_chart[i]
        IN  /\ SpecSameRows(c.fig.rows, SpecWindow(c.table, c.city, c.time_range, c.now))
            /\ SpecAscending(c.fig.rows)

(* C16 as amended: the view holds rows of the chosen site with datetime >=  *)
(* now - duration, ordered by datetime ascending: all of them when they are *)
(* at most the load limit, else as many as the limit, none of them earlier  *)
(* than a row of the window that is left out.                               *)
C16_WindowOfSample ==
    \A i \in DOMAIN trend_chart :
        LET c == trend_chart[i]
            window == SpecWindow(c.table, c.city, c.time_range, c.now)
            shown == c.fig.rows
        IN  /\ SpecAscending(shown)
            /\ \A r \in SpecRowsOf(shown) : SpecCount(shown, r) <= SpecCount(window, r)
            /\ Len(shown) = min_(Len(window), SampleLimit)
            /\ \A r \in SpecRowsOf(window) :
                  SpecCount(shown, r) < SpecCount(window, r) =>
                      \A k \in DOMAIN shown : r.datetime <= shown[k].datetime
            /\ c.fig.aqi = [k \in DOMAIN shown |-> calc_aqi(shown[k].pm25)]

\* A chart of a site with more rows in the window than the limit, cut to the limit.
C16_Witness ==
    \E i \in DOMAIN trend_chart :
        LET c == trend_chart[i]
        IN  /\ Len(SpecWindow(c.table, c.city, c.time_range, c.now)) > SampleLimit
            /\ Len(c.fig.rows) = SampleLimit
            /\ c.fig.rows[1].datetime < c.fig.rows[SampleLimit].datetime

(* C19: when no watcher of a city change is left to run, each of the five   *)
(* panes holds what its function computes for the selected city.            *)
C19_PanesFollowCity ==
    (phase = "serving" /\ watchers = << >>) =>
        /\ map_pane = create_map(latest_data, city_selector)
        /\ aqi_card = create_aqi_card(latest_data, city_selector)
        /\ pollutant_cards = create_pollutant_cards(latest_data, city_selector)
        /\ aqi_graph \in create_historical_aqi_graph(store, city_selector)
        /\ graph_header = create_graph_header(city_selector)

\* The first city was left for the second and the watchers have run.
C19_Witness ==
    /\ phase = "serving" /\ watchers = << >>
    /\ Len(cities) = 2 /\ city_selector = cities[2]
    /\ graph_header = create_graph_header(cities[2])
    /\ map_pane.center = cities[2]
    /\ aqi_card # create_aqi_card(latest_data, cities[1])

-----------------------------------------------------------------------------
(* The cards.                                                               *)

\* The calls of create_pollutant_cards kept that returned cards.
SpecCardCalls ==
    {i \in DOMAIN view_calls :
        /\ view_calls[i].fn = "create_pollutant_cards"
        /\ view_calls[i].ret # NotAvailable}

(* C21: on every card of create_pollutant_cards, CO and SO2 included, the   *)
(* status and the colour are the label and marker colour get_pollutant_status *)
(* returns for the pollutant and the value the card displays.               *)
C21_CardStatus ==
    \A i \in SpecCardCalls : \A k \in Kinds :
        LET c == view_calls[i].ret.cards[k]
            st == get_pollutant_status(k, Num(c.value))
        IN  c.status = st[1] /\ c.color = st[2]

(* C22: for a row without the column co the CO value is 95, without so2 the *)
(* SO2 value is 0, a cell that is present is the value itself, and in every *)
(* case the cards are returned, CO and SO2 card included.                   *)
C22_Defaults ==
    \A i \in DOMAIN view_calls :
        LET c == view_calls[i]
        IN  (c.fn = "create_pollutant_cards" /\ c.city \in site_values(latest_data)) =>
                LET row == first_row(latest_data, c.city)
                    co == IF "co" \in DOMAIN row THEN row.co ELSE 950
                    so2 == IF "so2" \in DOMAIN row THEN row.so2 ELSE 0
                IN  /\ c.ret.fn = "pollutant_cards"
                    /\ c.ret.co_value = co /\ c.ret.so2_value = so2
                    /\ c.ret.cards["CO"].value = fmt_0f(co)
                    /\ c.ret.cards["SO2"].value = fmt_0f(so2)

\* Two calls returned cards of a table that has the column so2 but not co.
C22_Witness ==
    /\ Len(view_calls) = 2
    /\ \A i \in 1..2 : i \in SpecCardCalls
    /\ LET row == first_row(latest_data, view_calls[1].city)
       IN  /\ DOMAIN row = DOMAIN reading("", 0, 0) \ {"co"}
           /\ view_calls[1].ret.cards["CO"].value = 950
           /\ view_calls[1].ret.cards["SO2"].value = fmt_0f(row.so2)
           /\ row.so2 > 0

(* C23: for a city that is no site of latest_data both create_aqi_card and  *)
(* create_pollutant_cards return the text 'City data not available' and no *)
(* classification; for a site of latest_data the AQI card shows calc_aqi of *)
(* the pm25 of a latest row of the site, with the label and the colour of   *)
(* get_aqi_status for that AQI.                                             *)
C23_CityCards ==
    \A i \in DOMAIN view_calls :
        LET c == view_calls[i]
        IN  c.fn \in {"create_aqi_card", "create_pollutant_cards"} =>
            IF c.city \notin site_values(latest_data)
            THEN c.ret = [fn |-> "text", text |-> "City data not available"]
            ELSE c.fn = "create_aqi_card" =>
                    /\ \E j \in DOMAIN latest_data :
                          /\ latest_data[j].site = c.city
                          /\ c.ret.aqi = calc_aqi(latest_data[j].pm25)
                    /\ c.ret.status[1] = get_aqi_status(c.ret.aqi)[1]
                    /\ c.ret.status[3] = get_aqi_status(c.ret.aqi)[3]

\* An AQI card for a city without a row, then one for a site above AQI 50.
C23_Witness ==
    /\ Len(view_calls) = 2
    /\ view_calls[1].fn = "create_aqi_card" /\ view_calls[2].fn = "create_aqi_card"
    /\ view_calls[1].city \notin site_values(latest_data)
    /\ view_calls[1].ret = NotAvailable
    /\ view_calls[2].city \in site_values(latest_data)
    /\ view_calls[2].ret.aqi > 50
    /\ Len(latest_data) >= 2

-----------------------------------------------------------------------------
(* The ranking.                                                             *)

\* The place of a site's row among the latest rows.
SpecPlace(latest, city) == CHOOSE j \in DOMAIN latest : latest[j].site = city

(* C24: the ranking lists min(10, number of latest rows) entries, each a    *)
(* latest row with its AQI, in non-increasing order of AQI; a row left out  *)
(* has an AQI no greater than any listed; entries of equal AQI stand in the *)
(* order of their rows; status and colour are those of get_aqi_status.      *)
C24_Ranking ==
    \A c \in {view_calls[i] : i \in DOMAIN view_calls} :
        c.fn = "create_polluted_cities_ranking" =>
            LET latest == load_latest_data(c.table)
                listed == {c.ret[i].city : i \in DOMAIN c.ret}
            IN  /\ Len(c.ret) = (IF Len(latest) < 10 THEN Len(latest) ELSE 10)
                /\ Cardinality(listed) = Len(c.ret)
                /\ listed \subseteq site_values(latest)
                /\ \A i \in DOMAIN c.ret :
                      /\ c.ret[i].aqi =
                            calc_aqi(latest[SpecPlace(latest, c.ret[i].city)].pm25)
                      /\ c.ret[i].status = get_aqi_status(c.ret[i].aqi)[1]
                      /\ c.ret[i].display_color = get_aqi_status(c.ret[i].aqi)[3]
                /\ \A i, j \in DOMAIN c.ret :
                      i < j =>
                          /\ c.ret[i].aqi >= c.ret[j].aqi
                          /\ c.ret[i].aqi = c.ret[j].aqi =>
                                SpecPlace(latest, c.ret[i].city)
                                    < SpecPlace(latest, c.ret[j].city)
                /\ \A j \in DOMAIN latest :
                      latest[j].site \notin listed =>
                          \A i \in DOMAIN c.ret : calc_aqi(latest[j].pm25) <= c.ret[i].aqi

\* A ranking of eleven sites: ten listed with both AQI among them, one left out.
C24_Witness ==
    /\ view_calls # << >>
    /\ view_calls[1].fn = "create_polluted_cities_ranking"
    /\ Len(view_calls[1].table) > 10
    /\ Len(view_calls[1].ret) = 10
    /\ view_calls[1].ret[1].aqi > view_calls[1].ret[10].aqi
    /\ view_calls[1].ret[1].aqi = view_calls[1].ret[2].aqi

-----------------------------------------------------------------------------
(* The historical graph.                                                    *)

\* The rows of a set that have fewer than n rows of the set after them.
SpecLastRows(rows, n) ==
    {r \in rows : Cardinality({q \in rows : q.datetime > r.datetime}) < n}

\* The rows of a set within 24 hours before the latest of them.
SpecLastDay(rows) ==
    {r \in rows : \A q \in rows : r.datetime >= q.datetime - 24}

\* What a call of create_historical_aqi_graph returned, given the rows to plot.
SpecGraphOf(c, all, plotted) ==
    IF c.city = NoneCity \/ c.city = "" THEN c.ret.fn = "None"
    ELSE IF all = {} THEN c.ret.fn = "placeholder"
    ELSE /\ c.ret.fn = "bars"
         /\ c.ret.rows # << >>
         /\ SpecAscending(c.ret.rows)
         /\ SpecRowsOf(c.ret.rows) = plotted
         /\ Len(c.ret.rows) = Cardinality(plotted)
         /\ \E k \in DOMAIN c.ret.rows : \A q \in all : q.datetime <= c.ret.rows[k].datetime
         /\ c.ret.aqi = [k \in DOMAIN c.ret.rows |-> calc_aqi(c.ret.rows[k].pm25)]

(* C25 as claimed: for a site with rows the graph plots, in ascending order *)
(* and with the latest row among them, the rows within 24 hours before the  *)
(* site's latest datetime when they are at least 5, otherwise the site's    *)
(* last 20 rows; a site without rows gets the placeholder, an empty city no *)
(* figure.                                                                  *)
C25_LastDayOrLast20 ==
    \A c \in {view_calls[i] : i \in DOMAIN view_calls} :
        c.fn = "create_historical_aqi_graph" =>
            LET all == SpecRowsOf(of_site(c.table, c.city))
                day == SpecLastDay(all)
            IN  SpecGraphOf(c, all, IF Cardinality(day) >= 5 THEN day
                                    ELSE SpecLastRows(all, 20))

(* C25 as amended: the rows within 24 hours before the site's latest        *)
(* datetime are those among the rows the load limit lets through, the       *)
(* site's most recent ones.                                                 *)
C25_LastDayOfSample ==
    \A c \in {view_calls[i] : i \in DOMAIN view_calls} :
        c.fn = "create_historical_aqi_graph" =>
            LET all == SpecRowsOf(of_site(c.table, c.city))
                day == SpecLastDay(SpecLastRows(all, GraphSampleLimit))
            IN  SpecGraphOf(c, all, IF Cardinality(day) >= 5 THEN day
                                    ELSE SpecLastRows(all, 20))

\* A graph of the last 20 of more rows, fewer than 5 of them in the last day.
C25_Witness ==
    /\ view_calls # << >>
    /\ view_calls[1].fn = "create_historical_aqi_graph"
    /\ view_calls[1].ret.fn = "bars"
    /\ Len(of_site(view_calls[1].table, view_calls[1].city)) > 20
    /\ Len(view_calls[1].ret.rows) = 20
    /\ view_calls[1].ret.rows[20].datetime - view_calls[1].ret.rows[19].datetime > 24

-----------------------------------------------------------------------------
(* The sample of recent rows.                                               *)

\* The rows of the table a call of load_historical_data_sample chooses from.
SpecCandidates(c) ==
    IF c.site = NoneCity \/ c.site = "" THEN c.table
    ELSE SelectSeq(c.table, LAMBDA r : r.site = c.site)

(* C26: load_historical_data_sample(site, limit) returns limit rows, or all *)
(* when there are fewer, of the given site or, without a site, of all       *)
(* sites; no row left out is later than a row returned; the rows are in     *)
(* ascending order of datetime.                                             *)
C26_MostRecent ==
    \A c \in {view_calls[i] : i \in DOMAIN view_calls} :
        c.fn = "load_historical_data_sample" =>
            LET from == SpecCandidates(c)
            IN  /\ Len(c.ret) <= c.limit
                /\ Len(c.ret) = (IF Len(from) < c.limit THEN Len(from) ELSE c.limit)
                /\ \A r \in SpecRowsOf(c.ret) : SpecCount(c.ret, r) <= SpecCount(from, r)
                /\ \A r \in SpecRowsOf(from) :
                      SpecCount(c.ret, r) < SpecCount(from, r) =>
                          \A k \in DOMAIN c.ret : r.datetime <= c.ret[k].datetime
                /\ SpecAscending(c.ret)

\* Without a site: the two latest rows of three, one of each site, the earliest left out.
C26_Witness ==
    /\ view_calls # << >>
    /\ view_calls[1].fn = "load_historical_data_sample"
    /\ view_calls[1].site = NoneCity /\ view_calls[1].limit = 2
    /\ Len(view_calls[1].table) = 3
    /\ Len(view_calls[1].ret) = 2
    /\ view_calls[1].ret[1].datetime < view_calls[1].ret[2].datetime
    /\ view_calls[1].ret[1].site # view_calls[1].ret[2].site

-----------------------------------------------------------------------------
(* The detailed view and the units.                                         *)

\* The pollutant fields of a row of the Readings Store.
SpecFields == {"pm25", "pm10", "no2", "o3", "co", "so2"}

(* C27: for each of the six kinds the field name create_detailed_pollutant_ *)
(* view derives from the kind is a pollutant field of the rows, and for a   *)
(* site with rows the view gets the value of that field in a latest row.    *)
C27_FieldOfKind ==
    \A c \in {view_calls[i] : i \in DOMAIN view_calls} :
        (c.fn = "create_detailed_pollutant_view" /\ c.pollutant \in Kinds) =>
            /\ lower(c.pollutant) \in SpecFields
            /\ of_site(c.table, c.city) # << >> =>
                  /\ c.ret.fn = "detail"
                  /\ \E j \in DOMAIN c.table :
                        /\ c.table[j].site = c.city
                        /\ \A k \in DOMAIN c.table :
                              c.table[k].site = c.city =>
                                  c.table[k].datetime <= c.table[j].datetime
                        /\ c.ret.value = c.table[j][lower(c.pollutant)]

\* The unit of a kind in the breakpoint table of the specification.
SpecUnit(k) ==
    CASE k \in {"PM2.5", "PM10"} -> "ug/m3"
      [] k \in {"NO2", "O3", "SO2"} -> "ppb"
      [] k = "CO" -> "ppm"

(* C28: get_pollutant_info and the pollutant cards give every kind the unit *)
(* of the breakpoint table: micrograms per cubic metre for PM2.5 and PM10,  *)
(* ppb for NO2, O3 and SO2, ppm for CO.                                     *)
C28_Units ==
    \A c \in {view_calls[i] : i \in DOMAIN view_calls} :
        /\ (c.fn = "get_pollutant_info" /\ c.pollutant \in Kinds) =>
              c.ret.unit = SpecUnit(c.pollutant)
        /\ (c.fn = "create_pollutant_cards" /\ c.ret # NotAvailable) =>
              \A k \in Kinds : c.ret.cards[k].unit = SpecUnit(k)

-----------------------------------------------------------------------------
(* The colours of the labels, and the bars.                                 *)

(* C29: two calls of get_pollutant_status that return the same label return *)
(* the same marker and background colour, whatever the kinds, and two       *)
(* different labels of the six have different marker colours.               *)
C29_ColourOfLabel ==
    \A i, j \in DOMAIN pollutant_calls :
        LET a == pollutant_calls[i].ret
            b == pollutant_calls[j].ret
        IN  /\ a[1] = b[1] => (a[2] = b[2] /\ a[3] = b[3])
            /\ a[1] # b[1] => a[2] # b[2]

\* CO and SO2 both 'Moderate', at different values.
C29_Witness ==
    /\ Len(pollutant_calls) = 2
    /\ pollutant_calls[1].pollutant = "CO" /\ pollutant_calls[2].pollutant = "SO2"
    /\ pollutant_calls[1].ret[1] = "Moderate" /\ pollutant_calls[2].ret[1] = "Moderate"
    /\ pollutant_calls[1].value # pollutant_calls[2].value

(* C30: for an empty series generate_real_historical_graph returns the text *)
(* 'No historical data available'; when all points have one value every     *)
(* bar is 50 percent high; when the values differ every height is between 0 *)
(* and 100, 0 for the smallest value and 100 for the largest.               *)
C30_BarHeights ==
    \A c \in {view_calls[i] : i \in DOMAIN view_calls} :
        c.fn = "generate_real_historical_graph" =>
            IF c.values = << >> THEN c.ret.text = "No historical data available"
            ELSE LET h == c.ret.heights
                     same == \A i, j \in DOMAIN c.values : c.values[i] = c.values[j]
                 IN  \A i \in DOMAIN c.values :
                        IF same THEN h[i].num = 50 * h[i].den
                        ELSE /\ 0 <= h[i].num /\ h[i].num <= 100 * h[i].den
                             /\ c.values[i] = min(c.values) => h[i].num = 0
                             /\ c.values[i] = max(c.values) => h[i].num = 100 * h[i].den

====
